---- MODULE Spec2Model ----
(***************************************************************************)
(* Macro tracker persistence engine (extensions/macro-tracker/src/db.ts):  *)
(* the entries / items / goals tables of MacroTrackerDb, its constructor   *)
(* and the operations insertEntry, getEntry, deleteEntry,                  *)
(* getEntriesByDateRange, getDailySummary, getGoals, updateGoals and       *)
(* close, with their callers: the update_nutrition_goals tool              *)
(* (update-goals-tool.ts), the get_nutrition_summary tool                  *)
(* (get-summary-tool.ts), the log_nutrition tool, and the PUT goals and    *)
(* DELETE entries handlers (api.ts).                                       *)
(*                                                                         *)
(* Tables are sequences of rows in rowid order.  entries, items and goals  *)
(* hold the committed database; the rows written inside the insertEntry    *)
(* transaction live in txn.work until COMMIT.  ret is the outcome of the   *)
(* last call that returned or threw.  dbOpen says whether the connection   *)
(* is open; reader is a second connection to the same database file, in    *)
(* the middle of a getEntry or getEntriesByDateRange of its own.           *)
(***************************************************************************)
EXTENDS Integers, Sequences, FiniteSets, TLC

VARIABLES entries, items, goals, now, inserts, pc, txn, ret, dbOpen, reader

vars == <<entries, items, goals, now, inserts, pc, txn, ret, dbOpen, reader>>

(* ------------------------------ bounds -------------------------------- *)

\* insertEntry calls made before the model stops inserting.
MaxInserts == 2

\* insertEntry calls made when every call, reads included, is interleaved.
MaxJointInserts == 1

\* Last value of the millisecond clock read by new Date().
MaxClock == 1

\* Most goal fields supplied in one updateGoals call.
MaxSupplied == 2

\* Significand width of the scaled-down floating point format of the totals.
Precision == 3

(* ------------------------- program constants -------------------------- *)

DefaultCalories == 2000

DefaultProtein == 150

DefaultCarbs == 250

DefaultFat == 65

DefaultFiber == 30

(* ------------------------------ inputs -------------------------------- *)

MacroFields == {"calories", "protein", "carbs", "fat", "fiber"}

\* The day part of zero-padded YYYY-MM-DD strings "..-09", "..-10", "..-11",
\* as sequences of digits: TEXT values, compared character by character.
Dates == {<<0, 9>>, <<1, 0>>, <<1, 1>>}

\* The dates entries are logged under; range queries also start from the
\* day before the first of them.
EntryDates == {<<1, 0>>, <<1, 1>>}

Sources == {"voice"}

RawInputs == {"two eggs and toast"}

\* ExtractedItem values (the eight fields of the type).
Eggs == [name |-> "Eggs", quantity |-> "2 large", calories |-> 7, protein |-> 3,
         carbs |-> 1, fat |-> 2, fiber |-> 0, confidence |-> "high"]

Toast == [name |-> "Toast", quantity |-> "1 slice", calories |-> 6, protein |-> 1,
          carbs |-> 4, fat |-> 0, fiber |-> 1, confidence |-> "medium"]

ExtractedItems == {Eggs, Toast}

\* The item lists passed to insertEntry, the empty list included.
ItemLists == {<<>>, <<Eggs>>, <<Toast, Eggs>>}

\* Values a caller supplies for a goal field.
GoalVals == {0, 2500}

\* Partial<Omit<Goals, "id" | "updated_at">>: a field is supplied iff it is in
\* the domain.  At most MaxSupplied fields are supplied in one call.
GoalPartials ==
    UNION {[S -> GoalVals] : S \in {T \in SUBSET MacroFields : Cardinality(T) <= MaxSupplied}}

\* A JavaScript value of unknown type: a number, or the string spelling one.
JsNumber(n) == [type |-> "number", v |-> n]

JsString(n) == [type |-> "string", v |-> n]

\* The numbers a caller sends as a goal: a negative one and a positive one.
SignedGoalVals == {-1, 2500}

\* What arrives in a goal field of a tool call or of a PUT body: a negative
\* number, a non-negative number, or something that is not a number.
RawGoalVals == {JsNumber(n) : n \in SignedGoalVals} \cup {JsString(2500)}

\* The goal fields these callers send: the first and the last key of the
\* handlers' loops.
SentFields == {"calories", "fiber"}

\* The tool's params and the parsed PUT body: Record<string, unknown>.
RawGoalParams ==
    UNION {[S -> RawGoalVals] : S \in {T \in SUBSET SentFields : Cardinality(T) <= MaxSupplied}}

\* The partials of numbers a caller can hand to updateGoals directly.
NumberGoalPartials ==
    UNION {[S -> SignedGoalVals] : S \in {T \in SUBSET SentFields : Cardinality(T) <= MaxSupplied}}

\* Request bodies of PUT /macro-tracker/api/goals: the JSON text of an
\* object, and one body that is not JSON.
NotJson == [json |-> FALSE, object |-> <<>>]

HttpBodies == {[json |-> TRUE, object |-> o] : o \in RawGoalParams} \cup {NotJson}

\* The partials used when goal updates interleave with the ledger calls.
LedgerGoalPartials == {p \in GoalPartials : DOMAIN p = {"calories"} /\ p["calories"] # 0}

(* ----------------------- numbers and text ----------------------------- *)

RECURSIVE Pow2(_)
Pow2(e) == IF e = 0 THEN 1 ELSE 2 * Pow2(e - 1)

RECURSIVE ExponentFrom(_, _)
ExponentFrom(n, e) == IF n < Pow2(Precision + e) THEN e ELSE ExponentFrom(n, e + 1)

\* Round a non-negative exact value to the nearest number with Precision
\* significant bits, ties to even.
FRound(n) ==
    LET e == ExponentFrom(n, 0)
        u == Pow2(e)
        q == n \div u
        r == n % u
    IN  IF 2 * r < u THEN q * u
        ELSE IF 2 * r > u THEN (q + 1) * u
        ELSE IF q % 2 = 0 THEN q * u ELSE (q + 1) * u

\* The Number addition of `total += item.field`.
FAdd(a, b) == FRound(a + b)

\* SQLite's BINARY collation on TEXT: a <= b.
RECURSIVE TextLeq(_, _)
TextLeq(a, b) ==
    IF a = <<>> THEN TRUE
    ELSE IF b = <<>> THEN FALSE
    ELSE IF Head(a) < Head(b) THEN TRUE
    ELSE IF Head(a) > Head(b) THEN FALSE
    ELSE TextLeq(Tail(a), Tail(b))

\* null / a value, as a sequence of length 0 / 1.
Null == <<>>

Some(v) == <<v>>

(* ------------------------------ rows ---------------------------------- *)

\* crypto.randomUUID(): a value no earlier call returned.  The n-th
\* insertEntry call draws EntryUuid(n) and, in its loop, ItemUuid(n, 1..).
EntryUuid(n) == <<n, 0>>

ItemUuid(n, k) == <<n, k>>

\* The loop `for (const item of params.items) total += item.field`, started
\* from acc.
RECURSIVE Accumulate(_, _, _)
Accumulate(its, f, acc) ==
    IF its = <<>> THEN acc
    ELSE Accumulate(Tail(its), f, FAdd(acc, Head(its)[f]))

\* Mutant of SumItems: the total is rounded to an even number at write time.
SumItemsRounded(its, f) == 2 * ((Accumulate(its, f, 0) + 1) \div 2)

\* let total = 0; for (...) total += item.f
SumItems(its, f) == Accumulate(its, f, 0)

\* The values bound to INSERT INTO entries (...), which are also the scalar
\* fields of the object insertEntry returns.
EntryRow(entryId, createdAt, params) ==
    [id |-> entryId, created_at |-> createdAt, date |-> params.date,
     source |-> params.source, raw_input |-> params.rawInput,
     total_calories |-> SumItems(params.items, "calories"),
     total_protein |-> SumItems(params.items, "protein"),
     total_carbs |-> SumItems(params.items, "carbs"),
     total_fat |-> SumItems(params.items, "fat"),
     total_fiber |-> SumItems(params.items, "fiber")]

\* Mutant of ItemRow: item.fat bound to the fiber column as well.
ItemRowFatTwice(itemId, entryId, item) ==
    [id |-> itemId, entry_id |-> entryId, name |-> item.name,
     quantity |-> item.quantity, calories |-> item.calories,
     protein |-> item.protein, carbs |-> item.carbs, fat |-> item.fat,
     fiber |-> item.fat, confidence |-> item.confidence]

\* The values bound to INSERT INTO items (...): { id, entry_id, ...item }.
ItemRow(itemId, entryId, item) ==
    [id |-> itemId, entry_id |-> entryId, name |-> item.name,
     quantity |-> item.quantity, calories |-> item.calories,
     protein |-> item.protein, carbs |-> item.carbs, fat |-> item.fat,
     fiber |-> item.fiber, confidence |-> item.confidence]

\* Mutant of TxnVisible: no transaction around the statements, each INSERT
\* commits on its own.
TxnVisibleAutocommit(committed, work) == work

\* What the database holds after a statement run inside db.transaction(...)
\* and before COMMIT: the committed table, not the transaction's working copy.
TxnVisible(committed, work) == committed

(* ----------------------------- queries -------------------------------- *)

\* Mutant of SelectItems: the rows come back newest first.
SelectItemsNewestFirst(tbl, id) ==
    LET Owned(r) == r.entry_id = id
        s == SelectSeq(tbl, Owned)
    IN  [i \in 1..Len(s) |-> s[Len(s) + 1 - i]]

\* SELECT * FROM items WHERE entry_id = ?  (idx_items_entry_id: rowid order)
SelectItems(tbl, id) ==
    LET Owned(r) == r.entry_id = id
    IN  SelectSeq(tbl, Owned)

\* SELECT * FROM entries WHERE id = ?
SelectEntry(tbl, id) ==
    LET Is(r) == r.id = id
    IN  SelectSeq(tbl, Is)

\* { ...row, items }
Materialize(row, itemTbl) == [items |-> SelectItems(itemTbl, row.id)] @@ row

\* Mutant of GetEntry: the entry is read through a join with its items, so
\* an entry without items is not found.
GetEntryByJoin(entryTbl, itemTbl, id) ==
    LET rows == SelectEntry(entryTbl, id)
    IN  IF rows = <<>> \/ SelectItems(itemTbl, id) = <<>>
        THEN Null
        ELSE Some(Materialize(rows[1], itemTbl))

\* getEntry(id) on the tables given.
GetEntry(entryTbl, itemTbl, id) ==
    LET rows == SelectEntry(entryTbl, id)
    IN  IF rows = <<>> THEN Null ELSE Some(Materialize(rows[1], itemTbl))

\* Mutant of DeleteCascade: the cascade takes the items of every entry.
DeleteCascadeEveryItem(itemTbl, id) == <<>>

\* Mutant of DeleteCascade: PRAGMA foreign_keys is off, items stay behind.
DeleteCascadeOff(itemTbl, id) == itemTbl

\* items(entry_id) REFERENCES entries(id) ON DELETE CASCADE
DeleteCascade(itemTbl, id) ==
    LET Keep(r) == r.entry_id # id
    IN  SelectSeq(itemTbl, Keep)

\* Mutant of DeleteFromEntries: the statement deletes by the date of the
\* entry, and so every entry logged for the same day.
DeleteFromEntriesSameDay(entryTbl, id) ==
    LET Keep(r) == \A i \in 1..Len(entryTbl) : entryTbl[i].id = id => entryTbl[i].date # r.date
    IN  SelectSeq(entryTbl, Keep)

\* DELETE FROM entries WHERE id = ?
DeleteFromEntries(entryTbl, id) ==
    LET Keep(r) == r.id # id
    IN  SelectSeq(entryTbl, Keep)

\* result.changes: the number of entries rows the DELETE removed.
Changes(entryTbl, id) == Len(entryTbl) - Len(DeleteFromEntries(entryTbl, id))

\* Mutant of ChangesMade: the comparison admits zero.
ChangesMadeOrNone(changes) == changes >= 0

\* return result.changes > 0
ChangesMade(changes) == changes > 0

\* Mutant of DateInRange: the lower bound is exclusive.
DateInRangeExclusive(d, from, to) == TextLeq(from, d) /\ d # from /\ TextLeq(d, to)

\* WHERE date >= ? AND date <= ?
DateInRange(d, from, to) == TextLeq(from, d) /\ TextLeq(d, to)

\* The orders in which the rows of s can come back.
RowOrders(s) ==
    LET n == Len(s)
        P == {p \in [1..n -> 1..n] : \A i, j \in 1..n : p[i] = p[j] => i = j}
    IN  {[i \in 1..n |-> s[p[i]]] : p \in P}

\* Mutant of OrderByCreatedAt: ORDER BY date ASC.
OrderByDate(s) ==
    {t \in RowOrders(s) :
        \A i, j \in 1..Len(t) : i < j => TextLeq(t[i].date, t[j].date)}

\* ORDER BY created_at ASC; rows with equal created_at come in any order.
OrderByCreatedAt(s) ==
    {t \in RowOrders(s) :
        \A i, j \in 1..Len(t) : i < j => t[i].created_at <= t[j].created_at}

\* Mutant of MaterializeEach: the rows are returned with an empty items list.
MaterializeEachBare(row, itemTbl) == [items |-> <<>>] @@ row

\* The callback of rows.map in getEntriesByDateRange: the items of the row
\* are selected and attached.
MaterializeEach(row, itemTbl) == [items |-> SelectItems(itemTbl, row.id)] @@ row

\* The results getEntriesByDateRange(from, to) can return on the tables given.
GetEntriesByDateRange(entryTbl, itemTbl, from, to) ==
    LET Hit(r) == DateInRange(r.date, from, to)
        rows == SelectSeq(entryTbl, Hit)
    IN  {[i \in 1..Len(t) |-> MaterializeEach(t[i], itemTbl)] : t \in OrderByCreatedAt(rows)}

\* The loop `for (const entry of entries) total += entry.total_x`.
RECURSIVE AccumulateEntries(_, _, _)
AccumulateEntries(es, f, acc) ==
    IF es = <<>> THEN acc
    ELSE AccumulateEntries(Tail(es), f, FAdd(acc, Head(es)[f]))

\* Mutant of DailySummary: the loop assigns (=) where it should add (+=), so
\* the totals are those of the last entry read.
DailySummaryOfLast(date, es, g) ==
    LET last == IF es = <<>> THEN <<>> ELSE <<es[Len(es)]>>
    IN  [date |-> date,
         total_calories |-> AccumulateEntries(last, "total_calories", 0),
         total_protein |-> AccumulateEntries(last, "total_protein", 0),
         total_carbs |-> AccumulateEntries(last, "total_carbs", 0),
         total_fat |-> AccumulateEntries(last, "total_fat", 0),
         total_fiber |-> AccumulateEntries(last, "total_fiber", 0),
         entry_count |-> Len(es), entries |-> es, goals |-> g]

\* The object getDailySummary returns for the entries read and the goals read.
DailySummary(date, es, g) ==
    [date |-> date,
     total_calories |-> AccumulateEntries(es, "total_calories", 0),
     total_protein |-> AccumulateEntries(es, "total_protein", 0),
     total_carbs |-> AccumulateEntries(es, "total_carbs", 0),
     total_fat |-> AccumulateEntries(es, "total_fat", 0),
     total_fiber |-> AccumulateEntries(es, "total_fiber", 0),
     entry_count |-> Len(es), entries |-> es, goals |-> g]

(* ------------------------------ goals --------------------------------- *)

\* Mutant of GetGoals: the SELECT looks for another key than the one
\* updateGoals writes.
GetGoalsOtherKey(goalTbl) ==
    LET Is(r) == r.id = "goals"
        rows == SelectSeq(goalTbl, Is)
    IN  IF rows = <<>> THEN Null ELSE Some(rows[1])

\* SELECT * FROM goals WHERE id = 'default'
GetGoals(goalTbl) ==
    LET Is(r) == r.id = "default"
        rows == SelectSeq(goalTbl, Is)
    IN  IF rows = <<>> THEN Null ELSE Some(rows[1])

\* Mutant of GetDailySummary: the range read has no upper bound.
GetDailySummaryOpenEnded(entryTbl, itemTbl, goalTbl, date) ==
    {DailySummary(date, es, GetGoals(goalTbl)) :
        es \in GetEntriesByDateRange(entryTbl, itemTbl, date, <<9, 9>>)}

\* The results getDailySummary(date) can return on the tables given.
GetDailySummary(entryTbl, itemTbl, goalTbl, date) ==
    {DailySummary(date, es, GetGoals(goalTbl)) :
        es \in GetEntriesByDateRange(entryTbl, itemTbl, date, date)}

\* Mutant of GoalDefault: the fat baseline typed as 56.
GoalDefaultTypo(f) ==
    CASE f = "calories" -> DefaultCalories
      [] f = "protein" -> DefaultProtein
      [] f = "carbs" -> DefaultCarbs
      [] f = "fat" -> 56
      [] f = "fiber" -> DefaultFiber

\* The literal at the end of each `params.f ?? existing?.f ?? <literal>`.
GoalDefault(f) ==
    CASE f = "calories" -> DefaultCalories
      [] f = "protein" -> DefaultProtein
      [] f = "carbs" -> DefaultCarbs
      [] f = "fat" -> DefaultFat
      [] f = "fiber" -> DefaultFiber

\* Mutant of MergeField: an omitted field falls back to the baseline even
\* when a record exists.
MergeFieldDropsExisting(params, existing, f) ==
    IF f \in DOMAIN params THEN params[f] ELSE GoalDefault(f)

\* params.f ?? existing?.f ?? default
MergeField(params, existing, f) ==
    IF f \in DOMAIN params THEN params[f]
    ELSE IF existing # Null THEN existing[1][f]
    ELSE GoalDefault(f)

\* const goals: Goals = { id: "default", ..., updated_at: now }
MergeGoals(params, existing, t) ==
    [id |-> "default",
     calories |-> MergeField(params, existing, "calories"),
     protein |-> MergeField(params, existing, "protein"),
     carbs |-> MergeField(params, existing, "carbs"),
     fat |-> MergeField(params, existing, "fat"),
     fiber |-> MergeField(params, existing, "fiber"),
     updated_at |-> t]

\* Mutant of Upsert: the statement has no ON CONFLICT clause and the table
\* no key, so every call adds a row.
UpsertAlwaysInserts(goalTbl, row) == Append(goalTbl, row)

\* Mutant of Upsert: the DO UPDATE clause does not set updated_at.
UpsertKeepsTimestamp(goalTbl, row) ==
    IF \E i \in 1..Len(goalTbl) : goalTbl[i].id = row.id
    THEN [i \in 1..Len(goalTbl) |->
            IF goalTbl[i].id = row.id
            THEN [row EXCEPT !.updated_at = goalTbl[i].updated_at]
            ELSE goalTbl[i]]
    ELSE Append(goalTbl, row)

\* INSERT INTO goals ... ON CONFLICT(id) DO UPDATE SET ...
Upsert(goalTbl, row) ==
    IF \E i \in 1..Len(goalTbl) : goalTbl[i].id = row.id
    THEN [i \in 1..Len(goalTbl) |-> IF goalTbl[i].id = row.id THEN row ELSE goalTbl[i]]
    ELSE Append(goalTbl, row)

(* ------------------------------ state --------------------------------- *)

NoTxn == [phase |-> "none"]

NoRet == [op |-> "none"]

NoReader == [phase |-> "idle"]

\* Mutant of NotOpen: a call on a closed connection returns nothing.
NotOpenSilent(op) == [op |-> op, threw |-> FALSE, value |-> Null]

\* this.db.prepare(...) on a closed connection throws "The database
\* connection is not open", and the method lets the error through.
NotOpen(op) == [op |-> op, threw |-> TRUE, error |-> "not open"]

Init ==
    /\ entries = <<>>
    /\ items = <<>>
    /\ goals = <<>>
    /\ now = 0
    /\ inserts = 0
    /\ pc = "idle"
    /\ txn = NoTxn
    /\ ret = NoRet
    /\ dbOpen = TRUE
    /\ reader = NoReader

\* new Date() advances between calls.
Tick ==
    /\ pc = "idle"
    /\ now < MaxClock
    /\ now' = now + 1
    /\ UNCHANGED <<entries, items, goals, inserts, pc, txn, ret, dbOpen, reader>>

(* --------------------------- insertEntry ------------------------------ *)

\* insertEntry up to BEGIN: the entry id, the timestamp, the totals and the
\* prepared statements.  No check is made on params.items.  On a closed
\* connection the first prepare throws.
InsertEntryBegin(params) ==
    /\ pc = "idle"
    /\ inserts < MaxInserts
    /\ inserts' = inserts + 1
    /\ IF dbOpen
       THEN /\ txn' = [phase |-> "open", params |-> params,
                       row |-> EntryRow(EntryUuid(inserts + 1), now, params),
                       nutritionItems |-> <<>>,
                       work |-> [entries |-> entries, items |-> items],
                       before |-> [entries |-> entries, items |-> items]]
            /\ pc' = "insertEntryStmt"
            /\ ret' = ret
       ELSE /\ ret' = NotOpen("insertEntry") @@
                        [params |-> params, id |-> EntryUuid(inserts + 1), at |-> "prepare",
                         before |-> [entries |-> entries, items |-> items]]
            /\ UNCHANGED <<pc, txn>>
    /\ UNCHANGED <<entries, items, goals, now, dbOpen, reader>>

\* A statement or COMMIT throws: better-sqlite3 rolls the transaction back
\* and insertEntry rethrows.
InsertEntryThrow ==
    /\ pc \in {"insertEntryStmt", "insertItemStmt", "commit"}
    /\ pc' = "idle"
    /\ txn' = NoTxn
    /\ ret' = [op |-> "insertEntry", threw |-> TRUE, params |-> txn.params,
               id |-> txn.row.id, at |-> pc, before |-> txn.before]
    /\ UNCHANGED <<entries, items, goals, now, inserts, dbOpen, reader>>

\* insertEntryStmt.run(...)
InsertEntryStmt ==
    /\ pc = "insertEntryStmt"
    /\ LET w == [txn.work EXCEPT !.entries = Append(@, txn.row)]
       IN  /\ txn' = [txn EXCEPT !.work = w]
           /\ entries' = TxnVisible(entries, w.entries)
    /\ pc' = IF txn.params.items = <<>> THEN "commit" ELSE "insertItemStmt"
    /\ UNCHANGED <<items, goals, now, inserts, ret, dbOpen, reader>>

\* One turn of the loop: itemId = randomUUID(); insertItemStmt.run(...);
\* nutritionItems.push(...)
InsertItemStmt ==
    /\ pc = "insertItemStmt"
    /\ LET i == Len(txn.nutritionItems) + 1
           r == ItemRow(ItemUuid(inserts, i), txn.row.id, txn.params.items[i])
           w == [txn.work EXCEPT !.items = Append(@, r)]
       IN  /\ txn' = [txn EXCEPT !.work = w, !.nutritionItems = Append(@, r)]
           /\ items' = TxnVisible(items, w.items)
           /\ pc' = IF i = Len(txn.params.items) THEN "commit" ELSE "insertItemStmt"
    /\ UNCHANGED <<entries, goals, now, ret, inserts, dbOpen, reader>>

\* COMMIT, then `return { id: entryId, ..., items: nutritionItems }`.
InsertEntryCommit ==
    /\ pc = "commit"
    /\ entries' = txn.work.entries
    /\ items' = txn.work.items
    /\ pc' = "idle"
    /\ txn' = NoTxn
    /\ ret' = [op |-> "insertEntry", threw |-> FALSE, params |-> txn.params,
               id |-> txn.row.id,
               value |-> [items |-> txn.nutritionItems] @@ txn.row]
    /\ UNCHANGED <<goals, now, inserts, dbOpen, reader>>

(* --------------------------- the constructor -------------------------- *)

\* The tables and indexes SCHEMA_SQL names.
SchemaObjects == {"entries", "idx_entries_date", "items", "idx_items_entry_id", "goals"}

\* The database file at the path: the objects of its schema and the rows
\* of its tables.
DbFile(schema, entryTbl, itemTbl, goalTbl) ==
    [schema |-> schema,
     tables |-> [entries |-> entryTbl, items |-> itemTbl, goals |-> goalTbl]]

\* Mutant of CreateTableIfNotExists: DROP TABLE IF EXISTS, then CREATE TABLE.
CreateTableAfterDrop(file, name) ==
    [schema |-> file.schema \cup {name}, tables |-> [file.tables EXCEPT ![name] = <<>>]]

\* CREATE TABLE IF NOT EXISTS name (...)
CreateTableIfNotExists(file, name) ==
    IF name \in file.schema THEN file
    ELSE [schema |-> file.schema \cup {name}, tables |-> [file.tables EXCEPT ![name] = <<>>]]

\* CREATE INDEX IF NOT EXISTS name ON ...
CreateIndexIfNotExists(file, name) == [file EXCEPT !.schema = @ \cup {name}]

\* this.db.exec(SCHEMA_SQL): the five statements in order.
ExecSchema(file) ==
    LET a == CreateTableIfNotExists(file, "entries")
        b == CreateIndexIfNotExists(a, "idx_entries_date")
        c == CreateTableIfNotExists(b, "items")
        d == CreateIndexIfNotExists(c, "idx_items_entry_id")
    IN  CreateTableIfNotExists(d, "goals")

\* new MacroTrackerDb(dbPath) on the path of the store: a fresh connection
\* to the file, which already holds the schema, and SCHEMA_SQL run on it.
DoOpen ==
    /\ pc = "idle"
    /\ LET file == DbFile(SchemaObjects, entries, items, goals)
           opened == ExecSchema(file)
       IN  /\ entries' = opened.tables.entries
           /\ items' = opened.tables.items
           /\ goals' = opened.tables.goals
           /\ ret' = [op |-> "open", created |-> opened.schema \ file.schema,
                      reopened |-> ~dbOpen]
    /\ dbOpen' = TRUE
    /\ UNCHANGED <<now, inserts, pc, txn, reader>>

(* ------------------------- the other calls ---------------------------- *)

\* close(): this.db.close(); closing a closed connection does nothing.
DoClose ==
    /\ pc = "idle"
    /\ dbOpen' = FALSE
    /\ ret' = [op |-> "close"]
    /\ UNCHANGED <<entries, items, goals, now, inserts, pc, txn, reader>>

DoGetEntry(id) ==
    /\ pc = "idle"
    /\ ret' = IF dbOpen
              THEN [op |-> "getEntry", id |-> id, value |-> GetEntry(entries, items, id)]
              ELSE NotOpen("getEntry")
    /\ UNCHANGED <<entries, items, goals, now, inserts, pc, txn, dbOpen, reader>>

DoDeleteEntry(id) ==
    /\ pc = "idle"
    /\ IF dbOpen
       THEN /\ entries' = DeleteFromEntries(entries, id)
            /\ items' = DeleteCascade(items, id)
            /\ ret' = [op |-> "deleteEntry", id |-> id,
                       existed |-> SelectEntry(entries, id) # <<>>,
                       owned |-> Len(SelectItems(items, id)),
                       value |-> ChangesMade(Changes(entries, id))]
       ELSE /\ ret' = NotOpen("deleteEntry")
            /\ UNCHANGED <<entries, items>>
    /\ UNCHANGED <<goals, now, inserts, pc, txn, dbOpen, reader>>

DoGetEntriesByDateRange(from, to) ==
    /\ pc = "idle"
    /\ IF dbOpen
       THEN \E es \in GetEntriesByDateRange(entries, items, from, to) :
               ret' = [op |-> "getEntriesByDateRange", from |-> from, to |-> to, value |-> es]
       ELSE ret' = NotOpen("getEntriesByDateRange")
    /\ UNCHANGED <<entries, items, goals, now, inserts, pc, txn, dbOpen, reader>>

\* Mutant of DoGetDailySummary: a summary asked while no Goals record exists
\* first stores the baseline record.
DoGetDailySummarySeedsGoals(date) ==
    /\ pc = "idle"
    /\ dbOpen
    /\ goals' = IF goals = <<>> THEN Upsert(goals, MergeGoals(<<>>, Null, now)) ELSE goals
    /\ \E summary \in GetDailySummary(entries, items, goals', date) :
          ret' = [op |-> "getDailySummary", date |-> date, value |-> summary]
    /\ UNCHANGED <<entries, items, now, inserts, pc, txn, dbOpen, reader>>

DoGetDailySummary(date) ==
    /\ pc = "idle"
    /\ IF dbOpen
       THEN \E summary \in GetDailySummary(entries, items, goals, date) :
               ret' = [op |-> "getDailySummary", date |-> date, value |-> summary]
       ELSE ret' = NotOpen("getDailySummary")
    /\ UNCHANGED <<entries, items, goals, now, inserts, pc, txn, dbOpen, reader>>

DoGetGoals ==
    /\ pc = "idle"
    /\ ret' = IF dbOpen
              THEN [op |-> "getGoals", value |-> GetGoals(goals)]
              ELSE NotOpen("getGoals")
    /\ UNCHANGED <<entries, items, goals, now, inserts, pc, txn, dbOpen, reader>>

\* updateGoals(params); on a closed connection its getGoals throws.
DoUpdateGoals(params) ==
    /\ pc = "idle"
    /\ IF dbOpen
       THEN LET existing == GetGoals(goals)
                g == MergeGoals(params, existing, now)
            IN  /\ goals' = Upsert(goals, g)
                /\ ret' = [op |-> "updateGoals", threw |-> FALSE, params |-> params,
                           created |-> existing = Null, value |-> g]
       ELSE /\ ret' = NotOpen("updateGoals")
            /\ goals' = goals
    /\ UNCHANGED <<entries, items, now, inserts, pc, txn, dbOpen, reader>>

(* ------------------- the other ways to write goals -------------------- *)

\* typeof v === "number" && Number.isFinite(v)
IsFiniteNumber(x) == x.type = "number"

\* The loop of handleUpdateGoals: the finite numbers among the five keys.
FiniteNumbers(parsed) ==
    LET S == {f \in DOMAIN parsed : IsFiniteNumber(parsed[f])}
    IN  [f \in S |-> parsed[f].v]

\* The key order of the tool's loop.
GoalKeys == <<"calories", "protein", "carbs", "fat", "fiber">>

\* The first key, in loop order, that holds a negative finite number; 0 if
\* there is none.
RECURSIVE FirstNegative(_, _)
FirstNegative(params, k) ==
    IF k > Len(GoalKeys) THEN 0
    ELSE IF /\ GoalKeys[k] \in DOMAIN params
            /\ IsFiniteNumber(params[GoalKeys[k]])
            /\ params[GoalKeys[k]].v < 0
         THEN k
         ELSE FirstNegative(params, k + 1)

\* update_nutrition_goals execute(_id, params)
ToolUpdateGoals(params) ==
    /\ pc = "idle"
    /\ LET neg == FirstNegative(params, 1)
           updates == FiniteNumbers(params)
           out == [op |-> "update_nutrition_goals", params |-> params]
       IN  IF neg # 0
           THEN /\ ret' = out @@ [threw |-> TRUE, error |-> <<GoalKeys[neg], "must be non-negative">>]
                /\ goals' = goals
           ELSE IF DOMAIN updates = {}
           THEN /\ ret' = out @@ [threw |-> TRUE, error |-> "At least one goal value must be provided"]
                /\ goals' = goals
           ELSE IF ~dbOpen
           THEN /\ ret' = out @@ NotOpen("update_nutrition_goals")
                /\ goals' = goals
           ELSE LET g == MergeGoals(updates, GetGoals(goals), now)
                IN  /\ goals' = Upsert(goals, g)
                    /\ ret' = out @@ [threw |-> FALSE, updates |-> updates, value |-> g]
    /\ UNCHANGED <<entries, items, now, inserts, pc, txn, dbOpen, reader>>

\* handleUpdateGoals(req, res): PUT /macro-tracker/api/goals
HttpUpdateGoals(body) ==
    /\ pc = "idle"
    /\ LET out == [op |-> "PUT goals", body |-> body]
       IN  IF ~body.json
           THEN /\ ret' = out @@ [status |-> 400, error |-> "Invalid JSON body"]
                /\ goals' = goals
           ELSE LET updates == FiniteNumbers(body.object)
                IN  IF DOMAIN updates = {}
                    THEN /\ ret' = out @@ [status |-> 400,
                                           error |-> "At least one goal value must be provided"]
                         /\ goals' = goals
                    ELSE IF ~dbOpen
                    THEN /\ ret' = out @@ [status |-> 500, error |-> "not open"]
                         /\ goals' = goals
                    ELSE LET g == MergeGoals(updates, GetGoals(goals), now)
                         IN  /\ goals' = Upsert(goals, g)
                             /\ ret' = out @@ [status |-> 200, updates |-> updates, value |-> g]
    /\ UNCHANGED <<entries, items, now, inserts, pc, txn, dbOpen, reader>>

(* ----------------------- the HTTP delete handler ---------------------- *)

\* The last segment of a path that ends in a slash: the empty string.
NoId == <<>>

\* Mutant of DeletedBody: the entry is serialised without its items.
DeletedBodyNoItems(entry) == [deleted |-> TRUE, entry |-> [entry EXCEPT !.items = <<>>]]

\* The body of the 200 response: { deleted: true, entry }
DeletedBody(entry) == [deleted |-> TRUE, entry |-> entry]

\* handleDeleteEntry(req, res): DELETE /macro-tracker/api/entries/:id, for
\* the last path segment entryId.
HttpDeleteEntry(entryId) ==
    /\ pc = "idle"
    /\ LET out == [op |-> "DELETE entries", entryId |-> entryId]
           entry == GetEntry(entries, items, entryId)
       IN  IF entryId = NoId
           THEN /\ ret' = out @@ [status |-> 400, error |-> "Entry ID required"]
                /\ UNCHANGED <<entries, items>>
           ELSE IF ~dbOpen
           THEN /\ ret' = out @@ [status |-> 500, error |-> "not open"]
                /\ UNCHANGED <<entries, items>>
           ELSE IF entry = Null
           THEN /\ ret' = out @@ [status |-> 404, error |-> "Entry not found"]
                /\ UNCHANGED <<entries, items>>
           ELSE /\ entries' = DeleteFromEntries(entries, entryId)
                /\ items' = DeleteCascade(items, entryId)
                /\ ret' = out @@ [status |-> 200, body |-> DeletedBody(entry[1])]
    /\ UNCHANGED <<goals, now, inserts, pc, txn, dbOpen, reader>>

(* -------------------------- the summary tool -------------------------- *)

\* The least k for which n * 2^k / d has Precision significant bits before
\* the binary point (n > 0, d > 0).
RECURSIVE ScaleFor(_, _, _)
ScaleFor(n, d, k) ==
    IF n * Pow2(k) >= d * Pow2(Precision - 1) THEN k ELSE ScaleFor(n, d, k + 1)

\* The exact ratio n / d (at least 2^(Precision - 1)) rounded to Precision
\* significant bits, ties to even.
RoundRatio(n, d) ==
    LET e == ExponentFrom(n \div d, 0)
        u == d * Pow2(e)
        q == n \div u
        r == n % u
    IN  Pow2(e) * (IF 2 * r < u THEN q
                   ELSE IF 2 * r > u THEN q + 1
                   ELSE IF q % 2 = 0 THEN q ELSE q + 1)

\* The Number nearest to n / d (n >= 0, d > 0), as m / 2^k.
Quotient(n, d) ==
    IF n = 0 THEN [m |-> 0, k |-> 0]
    ELSE LET k == ScaleFor(n, d, 0) IN [m |-> RoundRatio(n * Pow2(k), d), k |-> k]

\* a / b on Numbers holding the integers a >= 0 and b > 0.
FDiv(a, b) == Quotient(a, b)

\* x * c for the Number x = m / 2^k and the integer c >= 0.
FMul(x, c) == Quotient(x.m * c, Pow2(x.k))

\* Math.round(x) for x >= 0: the integer nearest to x, halves going up.
MathRound(x) == (2 * x.m + Pow2(x.k)) \div Pow2(x.k + 1)

\* Object.entries(byDate).toSorted(([a], [b]) => a.localeCompare(b)) on the
\* keys: the dates of S in ascending order (digits compare as in TextLeq).
RECURSIVE ToSorted(_)
ToSorted(S) ==
    IF S = {} THEN <<>>
    ELSE LET first == CHOOSE d \in S : \A o \in S : TextLeq(d, o)
         IN  <<first>> \o ToSorted(S \ {first})

\* byDate[date] after the loop over the entries read, spread into a day.
ByDate(es, date) ==
    LET Of(e) == e.date = date
        sel == SelectSeq(es, Of)
    IN  [date |-> date,
         calories |-> AccumulateEntries(sel, "total_calories", 0),
         protein |-> AccumulateEntries(sel, "total_protein", 0),
         carbs |-> AccumulateEntries(sel, "total_carbs", 0),
         fat |-> AccumulateEntries(sel, "total_fat", 0),
         fiber |-> AccumulateEntries(sel, "total_fiber", 0),
         count |-> Len(sel)]

\* days: one element per date that has an entry among es, by date.
Days(es) ==
    LET sorted == ToSorted({es[i].date : i \in 1..Len(es)})
    IN  [i \in 1..Len(sorted) |-> ByDate(es, sorted[i])]

\* The loop `for (const day of days) totalX += day.x`, started from acc.
RECURSIVE AccumulateDays(_, _, _)
AccumulateDays(days, f, acc) ==
    IF days = <<>> THEN acc
    ELSE AccumulateDays(Tail(days), f, FAdd(acc, Head(days)[f]))

\* Mutant of NumDays: the divisor is the number of entries.
NumDaysByEntries(days) ==
    IF Len(days) = 0 THEN 1 ELSE AccumulateDays(days, "count", 0)

\* const numDays = days.length || 1
NumDays(days) == IF Len(days) = 0 THEN 1 ELSE Len(days)

\* `details` of the range branch, for the entries and the goals read.
RangeSummary(from, to, es, g) ==
    LET days == Days(es)
        totals == [f \in MacroFields |-> AccumulateDays(days, f, 0)]
        numDays == NumDays(days)
    IN  [from |-> from, to |-> to, days |-> days, totals |-> totals,
         averages |-> [f \in MacroFields |-> MathRound(FDiv(totals[f], numDays))],
         goals |-> g]

\* The Numbers that are not finite.
NaN == [type |-> "NaN", v |-> 0]

Infinity == [type |-> "Infinity", v |-> 0]

\* Math.round((total / goal) * 100) for total >= 0 and goal >= 0.
Percent(total, goal) ==
    IF goal = 0 THEN (IF total = 0 THEN NaN ELSE Infinity)
    ELSE JsNumber(MathRound(FMul(FDiv(total, goal), 100)))

\* The percentages of goalLines, or null where the text has none.
GoalLines(summary) ==
    IF summary.goals = Null THEN Null
    ELSE LET g == summary.goals[1]
         IN  Some([calories |-> Percent(summary.total_calories, g.calories),
                   protein |-> Percent(summary.total_protein, g.protein),
                   carbs |-> Percent(summary.total_carbs, g.carbs),
                   fat |-> Percent(summary.total_fat, g.fat),
                   fiber |-> Percent(summary.total_fiber, g.fiber)])

\* The params of a range query: from on or before the 10th, to on or after.
RangeParams == {[from |-> a, to |-> b] : a \in {<<0, 9>>, <<1, 0>>}, b \in {<<1, 0>>, <<1, 1>>}}

\* The params of a single-day query: a date, nothing, or a from without to.
DayParams == {[date |-> d] : d \in Dates} \cup {<<>>, [from |-> <<0, 9>>]}

\* The calendar day on which the tool runs.
Today == <<1, 1>>

\* execute(_id, params) of get_nutrition_summary; today is what
\* new Date().toISOString().slice(0, 10) gives.
GetSummaryExecute(params, today) ==
    /\ pc = "idle"
    /\ LET out == [op |-> "get_nutrition_summary", threw |-> FALSE, params |-> params]
       IN  IF ~dbOpen THEN ret' = NotOpen("get_nutrition_summary")
           ELSE IF {"from", "to"} \subseteq DOMAIN params
           THEN \E es \in GetEntriesByDateRange(entries, items, params["from"], params["to"]) :
                   ret' = out @@ [branch |-> "range", read |-> es,
                                  details |-> RangeSummary(params["from"], params["to"],
                                                           es, GetGoals(goals))]
           ELSE LET date == IF "date" \in DOMAIN params THEN params["date"] ELSE today
                IN  \E summary \in GetDailySummary(entries, items, goals, date) :
                       ret' = out @@ [branch |-> "day", goalLines |-> GoalLines(summary),
                                      details |-> summary]
    /\ UNCHANGED <<entries, items, goals, now, inserts, pc, txn, dbOpen, reader>>

(* ------------------------ the log_nutrition tool ---------------------- *)

\* Items an extraction can carry that the schema rejects, a negative macro
\* and a confidence outside the enum, beside the ExtractedItems.
NegativeEggs == [Eggs EXCEPT !.calories = -1]

VagueToast == [Toast EXCEPT !.confidence = "unsure"]

\* What JSON.parse gives for the model's reply: an object with or without
\* an items property.
ParsedObjects ==
    {[hasItems |-> TRUE, items |-> l] :
        l \in ItemLists \cup {<<NegativeEggs>>, <<Toast, VagueToast>>}}
    \cup {[hasItems |-> FALSE, items |-> <<>>]}

\* One run of the embedded model: no model configured, no text, text that
\* is not JSON, or (fenced or bare) JSON text.
LlmRuns ==
    {[kind |-> k, parsed |-> [hasItems |-> FALSE, items |-> <<>>]] :
        k \in {"no model", "empty", "not json"}}
    \cup {[kind |-> "json", parsed |-> o] : o \in ParsedObjects}

\* The schema of one item: name of length >= 1, the five macros >= 0,
\* confidence in the enum.
ItemValid(item) ==
    /\ item.name # ""
    /\ \A f \in MacroFields : item[f] >= 0
    /\ item.confidence \in {"high", "medium", "low"}

\* Mutant of Validate: the schema has no minItems.
ValidateNoMinItems(parsed) ==
    /\ parsed.hasItems
    /\ \A i \in 1..Len(parsed.items) : ItemValid(parsed.items[i])

\* validate(parsed) against NUTRITION_EXTRACTION_SCHEMA.
Validate(parsed) ==
    /\ parsed.hasItems
    /\ Len(parsed.items) >= 1
    /\ \A i \in 1..Len(parsed.items) : ItemValid(parsed.items[i])

\* The params of log_nutrition: a description (possibly blank) and,
\* optionally, a date and a source.
LogParams ==
    {[description |-> "two eggs and toast", date |-> <<1, 0>>, source |-> "voice"],
     [description |-> "two eggs and toast"],
     [description |-> ""]}

\* db.insertEntry(params) run to its return: the tables after COMMIT and
\* the entry returned, for the n-th call at time t.
InsertEntryDone(entryTbl, itemTbl, n, t, params) ==
    LET row == EntryRow(EntryUuid(n), t, params)
        rows == [i \in 1..Len(params.items) |->
                    ItemRow(ItemUuid(n, i), row.id, params.items[i])]
    IN  [entries |-> Append(entryTbl, row), items |-> itemTbl \o rows,
         value |-> [items |-> rows] @@ row]

\* execute(_id, params) of log_nutrition, for the run llm of the embedded
\* model; insertEntry either returns or throws and rolls back.
LogNutritionExecute(params, llm, today) ==
    /\ pc = "idle"
    /\ LET out == [op |-> "log_nutrition", params |-> params, llm |-> llm]
           Throw(msg) == /\ ret' = out @@ [threw |-> TRUE, error |-> msg, insertEntry |-> Null]
                         /\ UNCHANGED <<entries, items>>
           call == [date |-> IF "date" \in DOMAIN params THEN params["date"] ELSE today,
                    source |-> IF "source" \in DOMAIN params THEN params["source"] ELSE "text",
                    rawInput |-> params["description"],
                    items |-> llm.parsed.items]
       IN  IF params["description"] = "" THEN Throw("description required") /\ inserts' = inserts
           ELSE IF llm.kind = "no model" THEN Throw("No model configured") /\ inserts' = inserts
           ELSE IF llm.kind = "empty" THEN Throw("LLM returned empty output") /\ inserts' = inserts
           ELSE IF llm.kind = "not json" THEN Throw("LLM returned invalid JSON") /\ inserts' = inserts
           ELSE IF ~Validate(llm.parsed)
           THEN Throw("Nutrition extraction failed validation") /\ inserts' = inserts
           ELSE /\ inserts < MaxInserts
                /\ inserts' = inserts + 1
                /\ \/ /\ ret' = out @@ [threw |-> TRUE, error |-> "insertEntry",
                                         insertEntry |-> Some(call)]
                      /\ UNCHANGED <<entries, items>>
                   \/ /\ dbOpen
                      /\ LET done == InsertEntryDone(entries, items, inserts + 1, now, call)
                         IN  /\ entries' = done.entries
                             /\ items' = done.items
                             /\ \E summary \in GetDailySummary(done.entries, done.items,
                                                                goals, call.date) :
                                    ret' = out @@ [threw |-> FALSE, insertEntry |-> Some(call),
                                                   goalProgress |-> GoalLines(summary),
                                                   details |-> [entry |-> done.value,
                                                                dailySummary |-> summary]]
    /\ UNCHANGED <<goals, now, pc, txn, dbOpen, reader>>

(* ----------------------- a second connection -------------------------- *)

\* Mutant of ReaderSnapshot: the reader sees the writer's uncommitted rows.
ReaderSnapshotDirty(committed, working) == working

\* journal_mode = WAL: a statement of another connection reads the last
\* committed version of a table, whatever the writer has done since BEGIN.
ReaderSnapshot(committed, working) == committed

\* The tables as a statement of the reader sees them at this moment.
ReaderTables ==
    IF txn.phase = "open"
    THEN [entries |-> ReaderSnapshot(entries, txn.work.entries),
          items |-> ReaderSnapshot(items, txn.work.items)]
    ELSE [entries |-> entries, items |-> items]

\* The insertEntry in flight while a statement of the reader runs, if any:
\* its entry id and the number of items it is inserting.
InFlight ==
    IF txn.phase = "open"
    THEN {[id |-> txn.row.id, n |-> Len(txn.params.items)]}
    ELSE {}

\* A reader's getEntry(id): its first statement, the entry row.
ReaderGetEntry(id) ==
    /\ reader.phase \in {"idle", "done"}
    /\ LET rows == SelectEntry(ReaderTables.entries, id)
       IN  reader' = IF rows = <<>>
                     THEN [phase |-> "done", op |-> "getEntry", value |-> <<>>,
                           overlapped |-> InFlight]
                     ELSE [phase |-> "items", op |-> "getEntry", rows |-> rows,
                           value |-> <<>>, overlapped |-> InFlight]
    /\ UNCHANGED <<entries, items, goals, now, inserts, pc, txn, ret, dbOpen>>

\* A reader's getEntriesByDateRange(from, to): its first statement, the
\* entry rows of the range.
ReaderGetEntriesByDateRange(from, to) ==
    /\ reader.phase \in {"idle", "done"}
    /\ LET Hit(r) == DateInRange(r.date, from, to)
       IN  \E rows \in OrderByCreatedAt(SelectSeq(ReaderTables.entries, Hit)) :
              reader' = [phase |-> IF rows = <<>> THEN "done" ELSE "items",
                         op |-> "getEntriesByDateRange", rows |-> rows,
                         value |-> <<>>, overlapped |-> InFlight]
    /\ UNCHANGED <<entries, items, goals, now, inserts, pc, txn, ret, dbOpen>>

\* The reader's next statement: the items of the next row, attached to it.
ReaderSelectItems ==
    /\ reader.phase = "items"
    /\ LET k == Len(reader.value) + 1
           e == Materialize(reader.rows[k], ReaderTables.items)
       IN  reader' = [reader EXCEPT !.value = Append(@, e),
                                    !.phase = IF k = Len(reader.rows) THEN "done" ELSE "items",
                                    !.overlapped = @ \cup InFlight]
    /\ UNCHANGED <<entries, items, goals, now, inserts, pc, txn, ret, dbOpen>>

InsertParams == [date : EntryDates, source : Sources, rawInput : RawInputs, items : ItemLists]

\* The identifiers callers pass to getEntry and deleteEntry: every entry id
\* handed out so far, one never handed out, and an item id.
Ids == {EntryUuid(n) : n \in 1..(inserts + 1)} \cup {ItemUuid(1, 1)}

\* The calls that write the ledger.
LedgerWrite ==
    \/ \E params \in InsertParams : InsertEntryBegin(params)
    \/ InsertEntryStmt
    \/ InsertItemStmt
    \/ InsertEntryCommit
    \/ InsertEntryThrow
    \/ \E id \in Ids : DoDeleteEntry(id)

\* The calls that read.
Read ==
    \/ \E id \in Ids : DoGetEntry(id)
    \/ \E from, to \in Dates : DoGetEntriesByDateRange(from, to)
    \/ \E date \in Dates : DoGetDailySummary(date)
    \/ DoGetGoals

\* Every call, with at most MaxJointInserts insertEntry calls.
Next ==
    \/ Tick
    \/ (inserts < MaxJointInserts \/ pc # "idle") /\ LedgerWrite
    \/ Read
    \/ \E params \in LedgerGoalPartials : DoUpdateGoals(params)
    \/ DoClose

Spec == Init /\ [][Next]_vars

\* The ledger's writes, interleaved with goal updates.
NextLedger ==
    \/ Tick
    \/ LedgerWrite
    \/ \E params \in LedgerGoalPartials : DoUpdateGoals(params)

SpecLedger == Init /\ [][NextLedger]_vars

\* The ledger's writes alone, as the clock advances.
NextEntries ==
    \/ Tick
    \/ LedgerWrite

SpecEntries == Init /\ [][NextEntries]_vars

\* The goals store alone.
NextGoals ==
    \/ Tick
    \/ DoGetGoals
    \/ \E params \in GoalPartials : DoUpdateGoals(params)

SpecGoals == Init /\ [][NextGoals]_vars

\* The insertEntry parameters of one day's logging.
OneDayParams == {p \in InsertParams : p.date = <<1, 0>>}

\* One day's ledger writes, all within one tick of the clock, with a second
\* connection reading between any two of the writer's statements.
NextReaders ==
    \/ \E params \in OneDayParams : InsertEntryBegin(params)
    \/ InsertEntryStmt
    \/ InsertItemStmt
    \/ InsertEntryCommit
    \/ InsertEntryThrow
    \/ \E id \in Ids : DoDeleteEntry(id)
    \/ \E id \in Ids : ReaderGetEntry(id)
    \/ \E date \in EntryDates : ReaderGetEntriesByDateRange(date, date)
    \/ ReaderSelectItems

SpecReaders == Init /\ [][NextReaders]_vars

\* One day's ledger, all within one tick of the clock, under every call:
\* inserts, deletes, goal updates and all the reads.
NextFrame ==
    \/ \E params \in OneDayParams : InsertEntryBegin(params)
    \/ InsertEntryStmt
    \/ InsertItemStmt
    \/ InsertEntryCommit
    \/ InsertEntryThrow
    \/ \E id \in Ids : DoDeleteEntry(id)
    \/ \E params \in LedgerGoalPartials : DoUpdateGoals(params)
    \/ Read

SpecFrame == Init /\ [][NextFrame]_vars

\* The three ways to write the goals: the tool, the HTTP handler and a
\* direct updateGoals call, with whatever values the caller sends.
NextGoalPaths ==
    \/ Tick
    \/ DoGetGoals
    \/ \E params \in NumberGoalPartials : DoUpdateGoals(params)
    \/ \E params \in RawGoalParams : ToolUpdateGoals(params)
    \/ \E body \in HttpBodies : HttpUpdateGoals(body)

SpecGoalPaths == Init /\ [][NextGoalPaths]_vars

\* The goal updates of a user who tracks calories only.
CalorieGoalPartials == {p \in GoalPartials : DOMAIN p = {"calories"}}

\* The ledger under range queries of the summary tool, all within one tick
\* of the clock.
NextSummary ==
    \/ LedgerWrite
    \/ \E params \in RangeParams : GetSummaryExecute(params, Today)

SpecSummary == Init /\ [][NextSummary]_vars

\* One day's ledger and the calorie goal under single-day queries of the
\* summary tool.
NextProgress ==
    \/ \E params \in OneDayParams : InsertEntryBegin(params)
    \/ InsertEntryStmt
    \/ InsertItemStmt
    \/ InsertEntryCommit
    \/ InsertEntryThrow
    \/ \E id \in Ids : DoDeleteEntry(id)
    \/ \E params \in CalorieGoalPartials : DoUpdateGoals(params)
    \/ \E params \in DayParams : GetSummaryExecute(params, Today)

SpecProgress == Init /\ [][NextProgress]_vars

\* The ledger's writes and the HTTP delete handler, all within one tick of
\* the clock.
NextHttpDelete ==
    \/ LedgerWrite
    \/ \E entryId \in Ids \cup {NoId} : HttpDeleteEntry(entryId)

SpecHttpDelete == Init /\ [][NextHttpDelete]_vars

\* Logging through the tool, deleting, and setting the calorie goal, all
\* within one tick of the clock.
NextLog ==
    \/ \E params \in LogParams, llm \in LlmRuns : LogNutritionExecute(params, llm, Today)
    \/ \E id \in Ids : DoDeleteEntry(id)
    \/ \E params \in CalorieGoalPartials : DoUpdateGoals(params)

SpecLog == Init /\ [][NextLog]_vars

\* Every call on a store that is closed and constructed again at will,
\* with at most MaxJointInserts insertEntry calls and a clock that stands
\* still.
NextReopen ==
    \/ (inserts < MaxJointInserts \/ pc # "idle") /\ LedgerWrite
    \/ Read
    \/ \E params \in LedgerGoalPartials : DoUpdateGoals(params)
    \/ DoClose
    \/ DoOpen

SpecReopen == Init /\ [][NextReopen]_vars

\* Every read, the summary tool included, between the writes of a ledger
\* with at most MaxJointInserts insertEntry calls and a clock that stands
\* still.
NextReads ==
    \/ (inserts < MaxJointInserts \/ pc # "idle") /\ LedgerWrite
    \/ \E params \in LedgerGoalPartials : DoUpdateGoals(params)
    \/ Read
    \/ \E params \in RangeParams : GetSummaryExecute(params, Today)
    \/ \E params \in DayParams : GetSummaryExecute(params, Today)

SpecReads == Init /\ [][NextReads]_vars

\* The ledger's writes and daily summaries, all within one tick of the
\* clock.
NextDaily ==
    \/ LedgerWrite
    \/ \E date \in Dates : DoGetDailySummary(date)

SpecDaily == Init /\ [][NextDaily]_vars

(* ------------------------- claim vocabulary --------------------------- *)

TotalColumns ==
    {<<"total_calories", "calories">>, <<"total_protein", "protein">>,
     <<"total_carbs", "carbs">>, <<"total_fat", "fat">>, <<"total_fiber", "fiber">>}

\* The floating sum s[1][f] + ... + s[k][f], added in sequence order.
RECURSIVE FloatSum(_, _, _)
FloatSum(s, f, k) == IF k = 0 THEN 0 ELSE FAdd(FloatSum(s, f, k - 1), s[k][f])

\* The rows of a table that satisfy a column = value test.
RowsWhere(tbl, col, v) == {i \in 1..Len(tbl) : tbl[i][col] = v}

\* The day number a date string stands for.
DayOf(d) == 10 * d[1] + d[2]

(* ------------------------------ claims -------------------------------- *)

\* C1: insertEntry with N items is all-or-nothing.  Once the call has
\* returned, the store holds exactly one entry row with the new id and
\* exactly N item rows referencing it; once it has thrown (at the entry
\* write, at an item write or at COMMIT), the store holds no row of the
\* attempt and both tables are exactly as they were before the call.
C1_InsertAllOrNothing ==
    (pc = "idle" /\ ret.op = "insertEntry") =>
        LET e == Cardinality(RowsWhere(entries, "id", ret.id))
            k == Cardinality(RowsWhere(items, "entry_id", ret.id))
        IN  IF ret.threw
            THEN /\ e = 0
                 /\ k = 0
                 /\ entries = ret.before.entries
                 /\ items = ret.before.items
            ELSE /\ e = 1
                 /\ k = Len(ret.params.items)

\* C1 witness: a two-item insert threw at its second item write, on a store
\* that already held an entry.
C1_Witness ==
    /\ pc = "idle"
    /\ ret.op = "insertEntry"
    /\ ret.threw
    /\ ret.at = "insertItemStmt"
    /\ Len(ret.params.items) = 2
    /\ Len(entries) = 1
    /\ Len(items) = 2

\* C2: for every non-empty item list, each of the five totals of the Entry
\* insertEntry returns is the floating sum of that field over the supplied
\* items, in list order, with no rounding applied.
C2_ReturnedTotalsAreSums ==
    (ret.op = "insertEntry" /\ ~ret.threw /\ ret.params.items # <<>>) =>
        \A c \in TotalColumns :
            ret.value[c[1]] = FloatSum(ret.params.items, c[2], Len(ret.params.items))

\* C2 witness: a two-item insert has returned.
C2_Witness ==
    /\ ret.op = "insertEntry"
    /\ ~ret.threw
    /\ Len(ret.params.items) = 2
    /\ ret.value.total_protein = 4
    /\ ret.value.total_fiber = 1

\* C3: in every reachable state of the store, each stored entry's five
\* totals are the floating sums of the corresponding columns over the item
\* rows whose entry_id is that entry's id.
C3_StoredTotalsMatchItems ==
    \A i \in 1..Len(entries) :
        LET e == entries[i]
            Owned(r) == r.entry_id = e.id
            rows == SelectSeq(items, Owned)
        IN  \A c \in TotalColumns : e[c[1]] = FloatSum(rows, c[2], Len(rows))

\* C3 witness: after inserts, a delete and a goal update the store holds a
\* two-item entry.
C3_Witness ==
    /\ ret.op = "deleteEntry"
    /\ ret.existed
    /\ goals # <<>>
    /\ Len(entries) = 1
    /\ Len(items) = 2

\* C4: round trip.  For a non-empty item list, getEntry of the id insertEntry
\* returned gives the entry insertEntry returned (same id, date, source, raw
\* input and totals), whose items are the input items in input order, each
\* with an identifier of its own and the entry's id as owner.
C4_RoundTrip ==
    (pc = "idle" /\ ret.op = "insertEntry" /\ ~ret.threw /\ ret.params.items # <<>>) =>
        LET got == GetEntry(entries, items, ret.value.id)
            in == ret.params.items
        IN  /\ got # Null
            /\ got[1].id = ret.value.id
            /\ got[1].date = ret.params.date
            /\ got[1].source = ret.params.source
            /\ got[1].raw_input = ret.params.rawInput
            /\ \A c \in TotalColumns : got[1][c[1]] = ret.value[c[1]]
            /\ got[1].items = ret.value.items
            /\ Len(got[1].items) = Len(in)
            /\ \A i \in 1..Len(in) :
                  /\ \A f \in DOMAIN in[i] : got[1].items[i][f] = in[i][f]
                  /\ got[1].items[i].entry_id = ret.value.id
                  /\ \A j \in 1..Len(items) :
                        items[j].id = got[1].items[i].id => items[j] = got[1].items[i]

\* C4 witness: a two-item insert has returned on a store that already held
\* a two-item entry.
C4_Witness ==
    /\ pc = "idle"
    /\ ret.op = "insertEntry"
    /\ ~ret.threw
    /\ Len(ret.params.items) = 2
    /\ Len(entries) = 2
    /\ Len(items) = 4

\* C5 (as claimed): insertEntry with an empty items list throws before any
\* write, so no stored entry has zero items.
C5_EmptyItemsRejected ==
    /\ (pc = "idle" /\ ret.op = "insertEntry" /\ ret.params.items = <<>>) => ret.threw
    /\ \A i \in 1..Len(entries) : RowsWhere(items, "entry_id", entries[i].id) # {}

\* C6: deletion cascade.  Once deleteEntry(id) has run on an existing entry,
\* getEntry(id) is absent and no item row has entry_id = id; the entry and
\* its items go in the same step, so no state holds an item row whose entry
\* row is gone.
C6_DeleteCascades ==
    /\ (ret.op = "deleteEntry" /\ ret.existed) =>
          /\ GetEntry(entries, items, ret.id) = Null
          /\ RowsWhere(entries, "id", ret.id) = {}
          /\ RowsWhere(items, "entry_id", ret.id) = {}
    /\ \A j \in 1..Len(items) : RowsWhere(entries, "id", items[j].entry_id) # {}

\* C6 witness: a two-item entry was deleted while another entry stayed.
C6_Witness ==
    /\ ret.op = "deleteEntry"
    /\ ret.existed
    /\ ret.owned = 2
    /\ Len(entries) = 1
    /\ items # <<>>

\* C7: range queries are inclusive and exact.  getEntriesByDateRange(from, to)
\* returns, without error, exactly the stored entries whose day d satisfies
\* from <= d <= to, each once; it returns the empty sequence when no entry
\* qualifies, in particular when from > to.
C7_RangeInclusiveExact ==
    \A from, to \in Dates :
        LET results == GetEntriesByDateRange(entries, items, from, to)
            want == {i \in 1..Len(entries) :
                        /\ DayOf(from) <= DayOf(entries[i].date)
                        /\ DayOf(entries[i].date) <= DayOf(to)}
        IN  /\ results # {}
            /\ \A res \in results :
                  /\ Len(res) = Cardinality(want)
                  /\ {res[k].id : k \in 1..Len(res)} = {entries[i].id : i \in want}
                  /\ (want = {} => res = <<>>)
                  /\ (DayOf(from) > DayOf(to) => res = <<>>)

\* C7 witness: with entries dated the 10th and the 11th stored, the range
\* [09, 10] returns the first alone and the range [11, 11] the second alone.
C7_Witness ==
    /\ pc = "idle"
    /\ Len(entries) = 2
    /\ entries[1].date = <<1, 0>>
    /\ entries[2].date = <<1, 1>>
    /\ \A res \in GetEntriesByDateRange(entries, items, <<0, 9>>, <<1, 0>>) :
          Len(res) = 1 /\ res[1].id = entries[1].id
    /\ \A res \in GetEntriesByDateRange(entries, items, <<1, 1>>, <<1, 1>>) :
          Len(res) = 1 /\ res[1].id = entries[2].id

\* C8: getDailySummary(date) returns, without error, a summary whose entries
\* are exactly the stored entries dated date (fully materialized), whose
\* entry_count is their number, whose five totals are the floating sums of
\* those entries' stored totals in the order returned, and whose goals is
\* the current Goals record or absent; with no entry for the date the totals
\* are 0, entry_count is 0 and entries is empty.
C8_DailySummary ==
    \A date \in Dates :
        LET results == GetDailySummary(entries, items, goals, date)
            want == RowsWhere(entries, "date", date)
        IN  /\ results # {}
            /\ \A s \in results :
                  /\ s.date = date
                  /\ s.entry_count = Cardinality(want)
                  /\ Len(s.entries) = Cardinality(want)
                  /\ {s.entries[k].id : k \in 1..Len(s.entries)} = {entries[i].id : i \in want}
                  /\ \A k \in 1..Len(s.entries) :
                        GetEntry(entries, items, s.entries[k].id) = Some(s.entries[k])
                  /\ \A c \in TotalColumns :
                        s[c[1]] = FloatSum(s.entries, c[1], Len(s.entries))
                  /\ s.goals = (IF goals = <<>> THEN Null ELSE Some(goals[1]))
                  /\ (want = {} =>
                        /\ s.entries = <<>>
                        /\ \A c \in TotalColumns : s[c[1]] = 0)

\* C8 witness: two entries dated the 10th and a Goals record are stored; the
\* summary of the 10th counts both and the summary of the 11th is all zero.
C8_Witness ==
    /\ pc = "idle"
    /\ Len(entries) = 2
    /\ entries[1].date = <<1, 0>>
    /\ entries[2].date = <<1, 0>>
    /\ Len(items) = 3
    /\ goals # <<>>
    /\ \A s \in GetDailySummary(entries, items, goals, <<1, 0>>) :
          s.entry_count = 2 /\ s.total_protein = 7 /\ s.goals # Null
    /\ \A s \in GetDailySummary(entries, items, goals, <<1, 1>>) :
          s.entry_count = 0 /\ s.total_calories = 0

\* C9: a partial goal update preserves every omitted field.  When a Goals
\* record exists, updateGoals(partial) stores and returns a record in which
\* each supplied field has the supplied value and each omitted field has the
\* value stored before the call.
C9_PartialUpdatePreservesOmitted ==
    [][(GetGoals(goals) # Null /\ ret'.op = "updateGoals" /\ <<goals, ret>> # <<goals', ret'>>) =>
          /\ ~ret'.created
          /\ GetGoals(goals') = Some(ret'.value)
          /\ \A f \in MacroFields :
                ret'.value[f] = IF f \in DOMAIN ret'.params
                                THEN ret'.params[f]
                                ELSE GetGoals(goals)[1][f]]_vars

\* C9 witness: an update supplying protein alone ran on a record whose
\* calories had been set to 2500, and calories is still 2500.
C9_Witness ==
    /\ ret.op = "updateGoals"
    /\ ~ret.created
    /\ DOMAIN ret.params = {"protein"}
    /\ ret.value.protein = 0
    /\ ret.value.calories = 2500
    /\ GetGoals(goals) = Some(ret.value)

\* The baseline targets of the specification text.
Baseline == [calories |-> 2000, protein |-> 150, carbs |-> 250, fat |-> 65, fiber |-> 30]

\* C10: on the first updateGoals (no Goals record exists) each supplied field
\* takes the supplied value and each omitted field its baseline value
\* (2000 / 150 / 250 / 65 / 30), and that record is the one stored.
C10_FirstUpdateUsesBaseline ==
    (ret.op = "updateGoals" /\ ret.created) =>
        /\ GetGoals(goals) = Some(ret.value)
        /\ \A f \in MacroFields :
              ret.value[f] = IF f \in DOMAIN ret.params THEN ret.params[f] ELSE Baseline[f]

\* C10 witness: the first update supplied calories and fiber only.
C10_Witness ==
    /\ ret.op = "updateGoals"
    /\ ret.created
    /\ DOMAIN ret.params = {"calories", "fiber"}
    /\ ret.value.calories = 2500
    /\ ret.value.fiber = 0
    /\ ret.value.fat = 65

\* A partial with no usable field: nothing supplied, or every supplied field
\* negative.
NoUsableField(p) == \A f \in DOMAIN p : p[f] < 0

\* C11 (as claimed): an updateGoals call whose partial is empty, or whose
\* supplied fields are all negative, throws and leaves the Goals record as
\* it was (or still absent).
C11_UpdateGoalsValidates ==
    [][(/\ ret'.op = "updateGoals"
        /\ <<goals, ret>> # <<goals', ret'>>
        /\ NoUsableField(ret'.params)) =>
          (ret'.threw /\ goals' = goals)]_vars

\* C12 (as claimed): whichever path wrote it, each of the five targets of a
\* stored Goals record is non-negative.
C12_GoalsNonNegative ==
    \A i \in 1..Len(goals) : \A f \in MacroFields : goals[i][f] >= 0

\* C13: the goals table never holds two rows.  Every row has the key
\* 'default', and after any successful write through the tool, the HTTP
\* handler or updateGoals itself, the table holds exactly one row.
C13_GoalsSingleton ==
    /\ Len(goals) <= 1
    /\ \A i \in 1..Len(goals) : goals[i].id = "default"
    /\ (ret.op \in {"updateGoals", "update_nutrition_goals"} /\ ~ret.threw) => Len(goals) = 1
    /\ (ret.op = "PUT goals" /\ ret.status = 200) => Len(goals) = 1

\* C13 witness: a PUT wrote the goals after an earlier write had created the
\* record (fiber is no longer at its baseline, and the PUT did not send it).
C13_Witness ==
    /\ ret.op = "PUT goals"
    /\ ret.status = 200
    /\ DOMAIN ret.updates = {"calories"}
    /\ Len(goals) = 1
    /\ goals[1].fiber = 2500
    /\ goals[1].calories = -1

\* C14: getGoals is absent exactly when no updateGoals has succeeded yet.
\* It is absent on the fresh store; it stays absent across every step that
\* is not a successful updateGoals; a successful updateGoals makes it
\* present; once present, no step of any operation makes it absent again;
\* and what a getGoals call returns is that record or absent accordingly.
C14_GoalsAbsentUntilWritten ==
    /\ GetGoals(goals) = Null
    /\ [][/\ (GetGoals(goals) # Null => GetGoals(goals') # Null)
          /\ (GetGoals(goals) = Null /\ GetGoals(goals') # Null) =>
                (ret'.op = "updateGoals" /\ ~ret'.threw)
          /\ (ret'.op = "updateGoals" /\ ~ret'.threw /\ <<goals, ret>> # <<goals', ret'>>) =>
                GetGoals(goals') # Null
          /\ (ret'.op = "getGoals" /\ ret' # ret /\ dbOpen) =>
                (ret'.value = Null <=> goals = <<>>)]_vars

\* C14 witness: getGoals returns the record on a store whose goals had been
\* written and whose ledger is empty again after an insertEntry call.
C14_Witness ==
    /\ pc = "idle"
    /\ ret.op = "getGoals"
    /\ dbOpen
    /\ ret.value # Null
    /\ inserts = 1
    /\ entries = <<>>

\* C15: a reader on another connection whose call overlapped an insertEntry
\* in flight gets that entry either not at all (the state before the insert)
\* or with all N of its items (the state after it): neither its getEntry nor
\* its getEntriesByDateRange holds the entry with fewer items, at any point
\* of the call.
C15_ReaderSeesAllOrNothing ==
    reader.phase \in {"items", "done"} =>
        \A w \in reader.overlapped :
            \A k \in 1..Len(reader.value) :
                reader.value[k].id = w.id => Len(reader.value[k].items) = w.n

\* C15 witness: a range read that began before a two-item insert finished
\* its call while the insert had written its entry row and one item; it
\* returned the one entry committed earlier, whole.
C15_Witness ==
    /\ reader.phase = "done"
    /\ reader.op = "getEntriesByDateRange"
    /\ pc = "insertItemStmt"
    /\ Len(txn.nutritionItems) = 1
    /\ reader.overlapped = {[id |-> txn.row.id, n |-> 2]}
    /\ Len(reader.value) = 1
    /\ Len(reader.value[1].items) = 2

\* C16: deleteEntry(id) returns true exactly when an entry with that id was
\* stored just before the call; for an id no entry has it returns false and
\* leaves entries, items and goals as they were.
C16_DeleteReportsExistence ==
    [][(/\ ret'.op = "deleteEntry"
        /\ dbOpen
        /\ <<entries, items, ret>> # <<entries', items', ret'>>) =>
          LET existed == RowsWhere(entries, "id", ret'.id) # {}
          IN  /\ ret'.value = existed
              /\ ~existed => (entries' = entries /\ items' = items /\ goals' = goals)]_vars

\* C16 witness: deleteEntry of the first id handed out returns false on a
\* store that holds goals and another entry with its two items, and not
\* that id.
C16_Witness ==
    /\ ret.op = "deleteEntry"
    /\ ret.id = EntryUuid(1)
    /\ ret.value = FALSE
    /\ goals # <<>>
    /\ Len(entries) = 1
    /\ entries[1].id = EntryUuid(2)
    /\ Len(items) = 2

\* C17: getEntry(id) returns absent exactly when no stored entry has the id
\* (never stored, or deleted since); otherwise it returns that entry: the
\* stored row with the id, and the stored items it owns.
C17_GetEntryAbsentIffUnknown ==
    [][(ret'.op = "getEntry" /\ dbOpen /\ ret' # ret) =>
          LET at == RowsWhere(entries, "id", ret'.id)
          IN  /\ ret'.value = Null <=> at = {}
              /\ \A i \in at :
                    /\ ret'.value[1].id = ret'.id
                    /\ \A c \in DOMAIN entries[i] : ret'.value[1][c] = entries[i][c]
                    /\ LET Owned(r) == r.entry_id = ret'.id
                       IN  ret'.value[1].items = SelectSeq(items, Owned)]_vars

\* C17 witness: getEntry of the id of the one insertEntry call made returns
\* absent on an empty ledger (the entry was deleted, or never committed).
C17_Witness ==
    /\ pc = "idle"
    /\ ret.op = "getEntry"
    /\ dbOpen
    /\ ret.id = EntryUuid(1)
    /\ ret.value = Null
    /\ inserts = 1
    /\ entries = <<>>

\* C18: whatever the range, getEntriesByDateRange returns its entries in
\* ascending order of creation timestamp: of two returned entries, the one
\* with the earlier timestamp comes first, whatever their logical dates.
C18_OrderedByCreation ==
    \A from, to \in Dates :
        \A res \in GetEntriesByDateRange(entries, items, from, to) :
            \A i, j \in 1..Len(res) :
                res[i].created_at < res[j].created_at => i < j

\* C18 witness: an entry dated the 11th was created first and a backdated
\* entry, dated the 10th, after it; the range [10, 11] returns the backdated
\* entry second.
C18_Witness ==
    /\ pc = "idle"
    /\ Len(entries) = 2
    /\ entries[1].date = <<1, 1>>
    /\ entries[2].date = <<1, 0>>
    /\ entries[1].created_at < entries[2].created_at
    /\ \A res \in GetEntriesByDateRange(entries, items, <<1, 0>>, <<1, 1>>) :
          /\ Len(res) = 2
          /\ res[1].id = entries[1].id
          /\ res[2].id = entries[2].id

\* The ids of the rows of a table.
IdsOf(tbl) == {tbl[i].id : i \in 1..Len(tbl)}

\* C19: an entry is immutable from its insertion to its deletion.  In every
\* step of every operation, an entry stored before and after the step has
\* the same fields and totals and the same items, field for field and in the
\* same order; an item row disappears only in a step in which its entry
\* disappears, and appears only in a step in which its entry appears; and
\* only insertEntry and deleteEntry steps change the two tables at all.
C19_EntriesImmutable ==
    [][/\ \A i \in 1..Len(entries) :
             entries[i].id \in IdsOf(entries') =>
                /\ \E j \in 1..Len(entries') : entries'[j] = entries[i]
                /\ SelectItems(items', entries[i].id) = SelectItems(items, entries[i].id)
       /\ \A k \in 1..Len(items) :
             \/ \E l \in 1..Len(items') : items'[l] = items[k]
             \/ /\ items[k].id \notin IdsOf(items')
                /\ items[k].entry_id \in IdsOf(entries)
                /\ items[k].entry_id \notin IdsOf(entries')
       /\ \A l \in 1..Len(items') :
             items'[l].id \notin IdsOf(items) =>
                /\ items'[l].entry_id \notin IdsOf(entries)
                /\ items'[l].entry_id \in IdsOf(entries')
       /\ <<entries, items>> # <<entries', items'>> =>
             (ret'.op \in {"insertEntry", "deleteEntry"} /\ ret' # ret)]_vars

\* C19 witness: a two-item entry is still stored, with its two items, after
\* a second insertEntry call whose entry is not stored (any more), a goal
\* update and a daily summary.
C19_Witness ==
    /\ pc = "idle"
    /\ ret.op = "getDailySummary"
    /\ inserts = 2
    /\ goals # <<>>
    /\ Len(entries) = 1
    /\ entries[1].id = EntryUuid(1)
    /\ Len(SelectItems(items, EntryUuid(1))) = 2
    /\ Len(items) = 2

\* The seven operations of the store.
Operations ==
    {"insertEntry", "getEntry", "deleteEntry", "getEntriesByDateRange",
     "getDailySummary", "getGoals", "updateGoals"}

\* C20: after close(), every call of one of the seven operations throws: it
\* returns nothing, the tables stay as they were, and the connection stays
\* closed.
C20_ClosedCallsThrow ==
    [][~dbOpen =>
          /\ ~dbOpen'
          /\ <<entries, items, goals>> = <<entries', items', goals'>>
          /\ ret' # ret =>
                \/ ret'.op = "close"
                \/ /\ ret'.op \in Operations
                   /\ ret'.threw
                   /\ "value" \notin DOMAIN ret']_vars

\* C20 witness: getDailySummary has thrown on a closed store that holds an
\* entry and goals.
C20_Witness ==
    /\ ~dbOpen
    /\ ret.op = "getDailySummary"
    /\ ret.threw
    /\ entries # <<>>
    /\ goals # <<>>

\* The floating sum of column f over the entries of es dated day d, in the
\* order of es.
DaySum(es, f, d) ==
    LET On(e) == DayOf(e.date) = d
        sel == SelectSeq(es, On)
    IN  FloatSum(sel, f, Len(sel))

\* The floating sum of the day sums of the days D, earliest day first.
RECURSIVE PeriodSum(_, _, _)
PeriodSum(es, f, D) ==
    IF D = {} THEN 0
    ELSE LET last == CHOOSE d \in D : \A o \in D : o <= d
         IN  FAdd(PeriodSum(es, f, D \ {last}), DaySum(es, f, last))

\* The stored entries whose day lies in [from, to].
StoredInRange(from, to) ==
    {i \in 1..Len(entries) :
        DayOf(from) <= DayOf(entries[i].date) /\ DayOf(entries[i].date) <= DayOf(to)}

\* What a range summary says about the period, apart from its averages: its
\* totals are the sums of the stored totals of the entries in range, one
\* sum per day and the day sums added earliest first, and its days are the
\* days that have an entry.
PeriodTotalsRight(p, es, d) ==
    LET want == StoredInRange(p["from"], p["to"])
        days == {DayOf(entries[i].date) : i \in want}
    IN  /\ Len(es) = Cardinality(want)
        /\ {es[k].id : k \in 1..Len(es)} = {entries[i].id : i \in want}
        /\ \A k \in 1..Len(es) : \A i \in want :
              es[k].id = entries[i].id =>
                  \A c \in TotalColumns : es[k][c[1]] = entries[i][c[1]]
        /\ Len(d.days) = Cardinality(days)
        /\ \A c \in TotalColumns : d.totals[c[2]] = PeriodSum(es, c[1], days)

\* The divisor of the averages: the number of distinct days in [from, to]
\* that have an entry, or 1 when there is none.
Divisor(p) ==
    LET days == {DayOf(entries[i].date) : i \in StoredInRange(p["from"], p["to"])}
    IN  IF days = {} THEN 1 ELSE Cardinality(days)

\* C21 (as amended): a range summary over [from, to] reports period totals
\* that are the sums of the totals of all entries in the range, and per-day
\* averages that are the period total divided by the number of distinct
\* days in the range with at least one entry, rounded to the nearest
\* integer (halves up); days without entries do not enter the divisor, and
\* with no entry in the range the divisor is 1 and every average is 0.
\* Stated of every range query the tool can be asked between two calls.
C21_AveragesAreRoundedQuotients ==
    pc = "idle" => \A p \in RangeParams :
        \A es \in GetEntriesByDateRange(entries, items, p["from"], p["to"]) :
            LET d == RangeSummary(p["from"], p["to"], es, GetGoals(goals))
                n == Divisor(p)
            IN  /\ PeriodTotalsRight(p, es, d)
                /\ \A f \in MacroFields :
                      /\ 2 * n * d.averages[f] <= 2 * d.totals[f] + n
                      /\ 2 * d.totals[f] + n < 2 * n * d.averages[f] + 2 * n
                /\ (StoredInRange(p["from"], p["to"]) = {} =>
                        \A f \in MacroFields : d.averages[f] = 0)

\* C21 witness: the tool has summarised [09, 11] with Eggs logged on the 10th
\* and Toast with Eggs on the 11th: 7 g of protein over two days, reported
\* as an average of 4.
C21_Witness ==
    /\ pc = "idle"
    /\ ret.op = "get_nutrition_summary"
    /\ ~ret.threw
    /\ ret.branch = "range"
    /\ ret.params = [from |-> <<0, 9>>, to |-> <<1, 1>>]
    /\ Len(entries) = 2
    /\ Len(ret.read) = 2
    /\ Len(ret.details.days) = 2
    /\ ret.details.totals["protein"] = 7
    /\ ret.details.averages["protein"] = 4

\* C21 as stated: each average equals the period total divided by the number
\* of distinct days with an entry.
C21_AveragesAreQuotients ==
    \A p \in RangeParams :
        \A es \in GetEntriesByDateRange(entries, items, p["from"], p["to"]) :
            LET d == RangeSummary(p["from"], p["to"], es, GetGoals(goals))
            IN  /\ PeriodTotalsRight(p, es, d)
                /\ \A f \in MacroFields : Divisor(p) * d.averages[f] = d.totals[f]

\* C22: updateGoals returns the full resulting record, and a getGoals call
\* that follows it (the clock may have advanced in between) returns a
\* record with the same five values and the same update timestamp.
C22_UpdateThenGetAgree ==
    [][(ret.op = "updateGoals" /\ ~ret.threw /\ ret'.op = "getGoals") =>
          /\ DOMAIN ret.value = MacroFields \cup {"id", "updated_at"}
          /\ ret'.value # Null
          /\ \A f \in MacroFields : ret'.value[1][f] = ret.value[f]
          /\ ret'.value[1].updated_at = ret.value.updated_at]_vars

\* C22 witness: getGoals has returned the record of an updateGoals call
\* made after the clock advanced, with a zero calorie goal and a changed
\* fiber goal.
C22_Witness ==
    /\ ret.op = "getGoals"
    /\ ret.value # Null
    /\ ret.value[1].updated_at = 1
    /\ ret.value[1].calories = 0
    /\ ret.value[1].fiber = 2500

\* A step of the HTTP delete handler for a request that carries an id.
HttpDeleteStep ==
    /\ pc = "idle" /\ pc' = "idle"
    /\ ret'.op = "DELETE entries"
    /\ ret'.entryId # NoId

\* C23: the HTTP delete handler answers 404 and removes nothing when no
\* stored entry has the requested id; it answers 200 exactly when an entry
\* with the id was stored and this request removed it with its items, and
\* the 200 body then carries deleted: true and the entry as it was stored
\* before the delete, columns and items.  No other row changes.
C23_HttpDeleteAnswers ==
    [][HttpDeleteStep =>
          LET id == ret'.entryId
              had == {i \in 1..Len(entries) : entries[i].id = id}
              owned == {k \in 1..Len(items) : items[k].entry_id = id}
              Other(r) == r.id # id
              OtherItem(r) == r.entry_id # id
              Owned(r) == r.entry_id = id
          IN  /\ (had = {} => /\ ret'.status = 404
                              /\ entries' = entries
                              /\ items' = items)
              /\ (ret'.status = 200 <=>
                      /\ had # {}
                      /\ \A i \in 1..Len(entries') : entries'[i].id # id
                      /\ \A k \in 1..Len(items') : items'[k].entry_id # id)
              /\ (ret'.status = 200 =>
                      /\ ret'.body.deleted = TRUE
                      /\ \A i \in had :
                            \A col \in DOMAIN entries[i] :
                                ret'.body.entry[col] = entries[i][col]
                      /\ ret'.body.entry.items = SelectSeq(items, Owned)
                      /\ entries' = SelectSeq(entries, Other)
                      /\ items' = SelectSeq(items, OtherItem))]_vars

\* C23 witness: the handler has answered 200 for the first entry, returning
\* it with its two items, while the second entry stays stored.
C23_Witness ==
    /\ ret.op = "DELETE entries"
    /\ ret.status = 200
    /\ ret.entryId = EntryUuid(1)
    /\ Len(ret.body.entry.items) = 2
    /\ Len(entries) = 1
    /\ entries[1].id = EntryUuid(2)
    /\ \A k \in 1..Len(items) : items[k].entry_id = EntryUuid(2)

\* A failed extraction: the model gave no text, text that is not JSON, or
\* JSON that breaks the schema (no items property, an empty items array, a
\* negative macro, a confidence outside high / medium / low).
ExtractionFailed(llm) ==
    \/ llm.kind \in {"empty", "not json"}
    \/ /\ llm.kind = "json"
       /\ \/ ~llm.parsed.hasItems
          \/ llm.parsed.items = <<>>
          \/ \E i \in 1..Len(llm.parsed.items) :
                \/ \E f \in MacroFields : llm.parsed.items[i][f] < 0
                \/ llm.parsed.items[i].confidence \notin {"high", "medium", "low"}

\* C24: log_nutrition persists nothing on a failed extraction: the call
\* throws, insertEntry is not reached, and entries and items are left as
\* they were.  insertEntry is reached only with the item list of a
\* schema-valid extraction, which is non-empty and has no negative macro,
\* and the tables change only in a call that reached it and returned.
C24_FailedExtractionPersistsNothing ==
    [][ret'.op = "log_nutrition" =>
          LET llm == ret'.llm
              reached == ret'.insertEntry
          IN  /\ (ExtractionFailed(llm) =>
                      /\ ret'.threw
                      /\ reached = Null
                      /\ entries' = entries
                      /\ items' = items)
              /\ (reached # Null =>
                      /\ ~ExtractionFailed(llm)
                      /\ llm.kind = "json"
                      /\ reached[1].items = llm.parsed.items
                      /\ Len(reached[1].items) >= 1
                      /\ \A i \in 1..Len(reached[1].items) :
                            \A f \in MacroFields : reached[1].items[i][f] >= 0)
              /\ ((entries' # entries \/ items' # items) =>
                      reached # Null /\ ~ret'.threw)]_vars

\* C24 witness: with one entry logged, a call whose extraction carried an
\* empty items array has thrown at validation and the ledger still holds
\* that entry and its two items alone.
C24_Witness ==
    /\ ret.op = "log_nutrition"
    /\ ret.threw
    /\ ret.error = "Nutrition extraction failed validation"
    /\ ret.llm.kind = "json"
    /\ ret.llm.parsed.hasItems
    /\ ret.llm.parsed.items = <<>>
    /\ ret.insertEntry = Null
    /\ Len(entries) = 1
    /\ Len(items) = 2

\* C25: whenever the summary tool emits a progress percentage for a macro,
\* the goal of that macro is set and non-zero and the percentage is
\* round(100 * total / goal), the ratio taken as the nearest Number; with no
\* Goals record no percentage is emitted.
C25_ProgressPercentages ==
    (ret.op = "get_nutrition_summary" /\ ~ret.threw /\ ret.branch = "day") =>
        /\ (ret.details.goals = Null => ret.goalLines = Null)
        /\ (ret.goalLines # Null =>
                \A c \in TotalColumns :
                    LET total == ret.details[c[1]]
                        goal == ret.details.goals[1][c[2]]
                        shown == ret.goalLines[1][c[2]]
                    IN  /\ goal # 0
                        /\ shown = JsNumber(MathRound(Quotient(100 * total, goal))))

\* The calls that read, by the op their outcome carries.
ReadOps == {"getEntry", "getEntriesByDateRange", "getDailySummary", "getGoals"}

\* C26: opening a store is idempotent on an initialized location.
\* Constructing MacroTrackerDb on a path that holds the schema and data
\* creates no table or index, leaves every row of entries, items and goals
\* as it was, and the read that follows returns the stored data rather
\* than throwing.
C26_OpenIsIdempotent ==
    [][/\ ((ret'.op = "open" /\ pc = "idle" /\ pc' = "idle") =>
              /\ ret'.created = {}
              /\ entries' = entries
              /\ items' = items
              /\ goals' = goals)
       /\ ((ret.op = "open" /\ ret'.op \in ReadOps) =>
              /\ "threw" \notin DOMAIN ret'
              /\ (ret'.op = "getEntry" => ret'.value = GetEntry(entries, items, ret'.id))
              /\ (ret'.op = "getGoals" =>
                     ret'.value = (IF goals = <<>> THEN Null ELSE Some(goals[1]))))]_vars

\* C26 witness: the store has just been constructed again, after a close,
\* over an entry, its two items and a Goals record, all still stored.
C26_Witness ==
    /\ ret.op = "open"
    /\ ret.created = {}
    /\ ret.reopened
    /\ dbOpen
    /\ Len(entries) = 1
    /\ Len(items) = 2
    /\ goals # <<>>

\* C27: every entry getEntriesByDateRange returns is fully materialized: its
\* items are exactly the stored item rows that reference it, in stored
\* order, and the entry equals what getEntry returns for its id in the same
\* state.
C27_RangeEntriesMaterialized ==
    \A from, to \in Dates :
        \A res \in GetEntriesByDateRange(entries, items, from, to) :
            \A k \in 1..Len(res) :
                LET owned == {j \in 1..Len(items) : items[j].entry_id = res[k].id}
                IN  /\ Len(res[k].items) = Cardinality(owned)
                    /\ \A j \in owned :
                          \E n \in 1..Len(res[k].items) :
                              /\ res[k].items[n] = items[j]
                              /\ n = Cardinality({h \in owned : h <= j})
                    /\ GetEntry(entries, items, res[k].id) = Some(res[k])

\* C27 witness: a range read has returned two entries of one day, the first
\* with two items and the second with one, both as stored.
C27_Witness ==
    /\ pc = "idle"
    /\ ret.op = "getEntriesByDateRange"
    /\ "threw" \notin DOMAIN ret
    /\ Len(ret.value) = 2
    /\ Len(ret.value[1].items) = 2
    /\ Len(ret.value[2].items) = 1
    /\ Len(entries) = 2
    /\ Len(items) = 3
    /\ GetEntry(entries, items, ret.value[1].id) = Some(ret.value[1])
    /\ GetEntry(entries, items, ret.value[2].id) = Some(ret.value[2])

\* C28: reads and summaries are pure.  A getEntry, getEntriesByDateRange,
\* getDailySummary or getGoals call, and a summary of the tool (one day or a
\* range), leaves every row of entries, items and goals as it was; a summary
\* made while no Goals record exists reports the goals as absent and
\* creates no record.
C28_ReadsArePure ==
    [][(pc = "idle" /\ pc' = "idle" /\
        ret'.op \in ReadOps \cup {"get_nutrition_summary"}) =>
          /\ entries' = entries
          /\ items' = items
          /\ goals' = goals
          /\ (goals = <<>> =>
                 /\ goals' = <<>>
                 /\ (ret'.op = "getDailySummary" => ret'.value.goals = Null)
                 /\ (ret'.op = "get_nutrition_summary" =>
                        /\ ret'.details.goals = Null
                        /\ (ret'.branch = "day" => ret'.goalLines = Null)))]_vars

\* C28 witness: getDailySummary has summed the one stored entry of the 10th
\* while no Goals record exists, reported the goals as absent, and the
\* ledger and the empty goals table are as before.
C28_Witness ==
    /\ pc = "idle"
    /\ ret.op = "getDailySummary"
    /\ ret.date = <<1, 0>>
    /\ ret.value.entry_count = 1
    /\ ret.value.goals = Null
    /\ goals = <<>>
    /\ Len(entries) = 1
    /\ Len(items) = 2

\* C29: writes touch only their own record.  An insertEntry call that
\* returns has added exactly one entry row, with the returned id, and the
\* item rows of that entry, one per item passed; a deleteEntry call has
\* removed exactly the entry with the id and the items that reference it;
\* every other entry and item, and the Goals record, is as before.  An
\* updateGoals call leaves entries and items as they were.
C29_WritesTouchOwnRecord ==
    [][/\ ((pc = "commit" /\ pc' = "idle" /\ ret'.op = "insertEntry" /\ ~ret'.threw) =>
              LET n == Len(entries)
                  m == Len(items)
                  k == Len(ret'.params.items)
              IN  /\ Len(entries') = n + 1
                  /\ \A i \in 1..n : entries'[i] = entries[i]
                  /\ entries'[n + 1].id = ret'.id
                  /\ \A i \in 1..n : entries[i].id # ret'.id
                  /\ Len(items') = m + k
                  /\ \A j \in 1..m : items'[j] = items[j]
                  /\ \A j \in (m + 1)..(m + k) : items'[j].entry_id = ret'.id
                  /\ goals' = goals)
       /\ ((pc = "idle" /\ pc' = "idle" /\ ret'.op = "deleteEntry" /\ "threw" \notin DOMAIN ret') =>
              LET Other(r) == r.id # ret'.id
                  OtherItem(r) == r.entry_id # ret'.id
              IN  /\ entries' = SelectSeq(entries, Other)
                  /\ items' = SelectSeq(items, OtherItem)
                  /\ goals' = goals)
       /\ ((pc = "idle" /\ pc' = "idle" /\ ret'.op = "updateGoals") =>
              /\ entries' = entries
              /\ items' = items)]_vars

\* C29 witness: of two entries stored with a Goals record, deleteEntry has
\* removed the first, which had two items; the second and its item remain.
C29_Witness ==
    /\ pc = "idle"
    /\ ret.op = "deleteEntry"
    /\ "threw" \notin DOMAIN ret
    /\ ret.existed
    /\ ret.owned = 2
    /\ ret.id = EntryUuid(1)
    /\ Len(entries) = 1
    /\ entries[1].id = EntryUuid(2)
    /\ Len(items) = 1
    /\ items[1].entry_id = EntryUuid(2)
    /\ goals # <<>>

\* The floating sum of macro f over the item rows stored for entry id, in
\* stored order.
StoredItemSum(id, f) ==
    LET Owned(r) == r.entry_id = id
        own == SelectSeq(items, Owned)
    IN  FloatSum(own, f, Len(own))

\* The floating sum of the stored item sums of the entries es[1..k].
RECURSIVE SumOverItems(_, _, _)
SumOverItems(es, f, k) ==
    IF k = 0 THEN 0 ELSE FAdd(SumOverItems(es, f, k - 1), StoredItemSum(es[k].id, f))

\* C30: after any sequence of insertEntry and deleteEntry calls,
\* getDailySummary(d) reports, for each macro, the sum of that macro over
\* all items of the entries currently stored with date d (a floating sum
\* per entry, the entry sums added in the order read) and an entry_count
\* equal to the number of such entries; a deleted entry and an entry of
\* another day contribute nothing.
C30_SummaryMatchesStoredItems ==
    pc = "idle" =>
        \A date \in Dates :
            \A s \in GetDailySummary(entries, items, goals, date) :
                LET want == {i \in 1..Len(entries) : DayOf(entries[i].date) = DayOf(date)}
                IN  /\ s.entry_count = Cardinality(want)
                    /\ {s.entries[k].id : k \in 1..Len(s.entries)} = {entries[i].id : i \in want}
                    /\ Len(s.entries) = Cardinality(want)
                    /\ \A c \in TotalColumns :
                          s[c[1]] = SumOverItems(s.entries, c[2], Len(s.entries))

\* C30 witness: entries were logged for the 10th (Toast and Eggs) and the
\* 11th (Eggs), the first was deleted, and the summary of the 10th now
\* counts no entry and no calories while the ledger holds the other.
C30_Witness ==
    /\ pc = "idle"
    /\ ret.op = "getDailySummary"
    /\ ret.date = <<1, 0>>
    /\ ret.value.entry_count = 0
    /\ ret.value.total_calories = 0
    /\ inserts = 2
    /\ Len(entries) = 1
    /\ entries[1].id = EntryUuid(2)
    /\ entries[1].date = <<1, 1>>
    /\ Len(items) = 1

====
